---- MODULE Spec2Model ----
(***************************************************************************)
(* Model of utils/oscap-oval.c: the option parser getopt_oval, the         *)
(* collect, evaluate and analyse workflows of the "oval" command group,    *)
(* the per-definition callback and the result aggregator (struct oval_usr).*)
(*                                                                         *)
(* One behaviour is one command: getopt_oval, then, when it returned true, *)
(* one invocation of the module's workflow function.  Every call           *)
(* into a collaborator (import, probe, session, evaluation, export, free)  *)
(* is appended to `calls` in program order; a call whose result the code   *)
(* reads gets its outcome from the environment by \E.                      *)
(***************************************************************************)
EXTENDS Integers, Sequences, FiniteSets

\* ------------------------------------------------------------------ bounds
\* Largest number of definitions a Definition Model holds in the model.
MaxDefs == 3
\* Largest argument count handed to the option parser.
MaxArgc == 3

\* ---------------------------------------------------------------- constants
NULL == "NULL"

\* enum oscap_exitcode (oscap-tool.h): three distinct statuses.
OSCAP_OK == "OSCAP_OK"
OSCAP_ERROR == "OSCAP_ERROR"
OSCAP_FAIL == "OSCAP_FAIL"
\* rc before the workflow function has returned.
RUNNING == "RUNNING"

\* oval_result_t (oval_types.h): a bit per verdict category, 0 is no category.
OVAL_RESULT_INVALID == 0
OVAL_RESULT_TRUE == 1
OVAL_RESULT_FALSE == 2
OVAL_RESULT_UNKNOWN == 4
OVAL_RESULT_ERROR == 8
OVAL_RESULT_NOT_EVALUATED == 16
OVAL_RESULT_NOT_APPLICABLE == 32

\* The six verdict categories the callback's switch names.
SixCategories ==
    { OVAL_RESULT_TRUE, OVAL_RESULT_FALSE, OVAL_RESULT_ERROR, OVAL_RESULT_UNKNOWN,
      OVAL_RESULT_NOT_EVALUATED, OVAL_RESULT_NOT_APPLICABLE }

\* Values the evaluation machinery can hand to the callback as (oval_result_t).
CallbackVerdicts == SixCategories \cup { OVAL_RESULT_INVALID }

\* Values oval_agent_eval_definition can return: a verdict, or -1 for a fault.
EvalDefinitionReturns == CallbackVerdicts \cup { -1 }

Modules == { "collect", "eval", "analyse" }

Resources ==
    { "def_model", "sys_model", "pb_sess", "sysinfo", "sess", "usr",
      "res_model", "res_direct" }

\* The options of the long_options table that the workflows read.
Options == { "result-file", "report-file", "id", "skip-valid" }

VARIABLES
    opt,        \* getopt_oval's frame: argc, optind, the options met, its result
    action,     \* struct oscap_action: module, validate, id, f_results, f_report,
                \* verbosity, url_oval, url_syschar
    VERBOSE,    \* the global int VERBOSE
    pc,         \* position in the workflow function
    heap,       \* status of every object the workflow holds a pointer to
    usr,        \* contents of struct oval_usr
    ret,        \* the local int ret of app_evaluate_oval
    err,        \* oscap_err(): an underlying library error is set
    nDefs,      \* number of definitions in the imported Definition Model
    verdicts,   \* verdicts delivered so far by the evaluation machinery
    calls,      \* collaborator calls made so far, in order
    out,        \* what was printed so far, in order
    site,       \* the return statement taken (source line), 0 while running
    rc          \* the workflow function's return value

vars ==
    << opt, action, VERBOSE, pc, heap, usr, ret, err, nDefs, verdicts, calls, out, site, rc >>

\* ------------------------------------------------------------------ helpers
\* struct oval_usr after memset(usr, 0, ...).
ZeroUsr ==
    [ result_false |-> 0, result_true |-> 0, result_error |-> 0,
      result_unknown |-> 0, result_neval |-> 0, result_napp |-> 0 ]

\* A release of object r: a live object becomes freed, a freed one is freed twice.
Free(h, r) ==
    [h EXCEPT ![r] = CASE @ = "live" -> "freed"
                       [] @ = "freed" -> "double_free"
                       [] OTHER -> @]

\* A read, write or hand-over of object r to a collaborator.
Use(h, r) ==
    [h EXCEPT ![r] = IF @ = "freed" THEN "use_after_free" ELSE @]

Call(fn, ok) == [fn |-> fn, ok |-> ok]

Say(o, cond, stream, text, arg) ==
    IF cond THEN Append(o, <<stream, text, arg>>) ELSE o

Called(fn) == \E i \in 1..Len(calls) : calls[i].fn = fn

Failed(fn) == \E i \in 1..Len(calls) : calls[i].fn = fn /\ ~calls[i].ok

Succeeded(fn) == \E i \in 1..Len(calls) : calls[i].fn = fn /\ calls[i].ok

Printed(text) == \E i \in 1..Len(out) : out[i][2] = text

SumUsr(u) ==
    u.result_true + u.result_false + u.result_error + u.result_unknown
    + u.result_neval + u.result_napp

\* ------------------------------------------------------------------ Init
\* The state when the command's option parser is entered: no option has been
\* met, the global VERBOSE is still zero.
NoFrame == [argc |-> 0, optind |-> 0, given |-> {}, ret |-> "none"]

Init ==
    /\ opt = NoFrame
    /\ action \in [ module : Modules, validate : BOOLEAN, id : {NULL},
                    f_results : {NULL}, f_report : {NULL}, verbosity : {-1, 0},
                    url_oval : {NULL}, url_syschar : {NULL} ]
    /\ VERBOSE = 0
    /\ pc = "getopt"
    /\ heap = [r \in Resources |-> "none"]
    /\ usr = ZeroUsr
    /\ ret = 0
    /\ err = FALSE
    /\ nDefs = 0
    /\ verdicts = << >>
    /\ calls = << >>
    /\ out = << >>
    /\ site = 0
    /\ rc = RUNNING

\* The function returns status s at source line l.
Return(s, l) ==
    /\ rc' = s
    /\ site' = l
    /\ pc' = "done"

\* ------------------------------------------------------------ option parser
\* argv[i] after getopt_long has moved the options to the front: an argument
\* for i < argc, and the null pointer that ends argv for i = argc.
Argv(argc, i) == IF i < argc THEN "file" ELSE NULL

\* Line 451: no argument is left for the definitions file.
DefinitionsMissing(argc, optind) == optind >= argc

\* Line 457: the check made for the system-characteristics file.
SyscharMissing(argc, optind) == (optind + 1) > argc

\* Lines 438-448: the fields the options o set in the action a.
ApplyOptions(a, o) ==
    [a EXCEPT !.f_results = IF "result-file" \in o THEN "out.xml" ELSE @,
              !.f_report = IF "report-file" \in o THEN "report.html" ELSE @,
              !.id = IF "id" \in o THEN "CHECK-1" ELSE @,
              !.validate = IF "skip-valid" \in o THEN FALSE ELSE @]

\* Lines 414-463: getopt_oval.  o are the options on the command line, bad
\* tells that an unknown option is among them, argc is the argument count and
\* optind the index of the first non-option argument after the option loop.
GetoptOval ==
    /\ pc = "getopt"
    /\ VERBOSE' = action.verbosity
    /\ \E o \in SUBSET Options, bad \in BOOLEAN, argc \in 1..MaxArgc :
         \E optind \in 1..argc :
           LET a1 == ApplyOptions(action, o)
               a2 == [a1 EXCEPT !.url_oval = Argv(argc, optind)]
               a3 == [a2 EXCEPT !.url_syschar = Argv(argc, optind + 1)]
               frame == [argc |-> argc, optind |-> optind, given |-> o, ret |-> "none"]
           IN IF bad
              THEN /\ action' = a1
                   /\ opt' = [frame EXCEPT !.ret = "usage"] /\ pc' = "usage"
              ELSE IF DefinitionsMissing(argc, optind)
              THEN /\ action' = a1
                   /\ opt' = [frame EXCEPT !.ret = "usage"] /\ pc' = "usage"
              ELSE IF a1.module = "analyse" /\ SyscharMissing(argc, optind)
              THEN /\ action' = a2
                   /\ opt' = [frame EXCEPT !.ret = "usage"] /\ pc' = "usage"
              ELSE /\ action' = IF a1.module = "analyse" THEN a3 ELSE a2
                   /\ opt' = [frame EXCEPT !.ret = "true"] /\ pc' = "parsed"
    /\ UNCHANGED << heap, usr, ret, err, nDefs, verdicts, calls, out, site, rc >>

\* The module's .func is entered after its .opt_parser returned true; the
\* parser's frame is gone.
CallFunc ==
    /\ pc = "parsed" /\ opt.ret = "true"
    /\ opt' = [NoFrame EXCEPT !.ret = "true"]
    /\ pc' = "start"
    /\ UNCHANGED << action, VERBOSE, heap, usr, ret, err, nDefs, verdicts, calls, out,
                    site, rc >>

\* ------------------------------------------------ aggregator and dispositions
\* Faulty variant: the switch has no case for OVAL_RESULT_NOT_APPLICABLE.
app_oval_callback_no_napp(u, v) ==
    CASE v = OVAL_RESULT_TRUE -> [u EXCEPT !.result_true = @ + 1]
      [] v = OVAL_RESULT_FALSE -> [u EXCEPT !.result_false = @ + 1]
      [] v = OVAL_RESULT_ERROR -> [u EXCEPT !.result_error = @ + 1]
      [] v = OVAL_RESULT_UNKNOWN -> [u EXCEPT !.result_unknown = @ + 1]
      [] v = OVAL_RESULT_NOT_EVALUATED -> [u EXCEPT !.result_neval = @ + 1]
      [] OTHER -> u

\* Faulty variant: the break after the OVAL_RESULT_TRUE case is missing.
app_oval_callback_fallthrough(u, v) ==
    CASE v = OVAL_RESULT_TRUE ->
             [u EXCEPT !.result_true = @ + 1, !.result_false = @ + 1]
      [] v = OVAL_RESULT_FALSE -> [u EXCEPT !.result_false = @ + 1]
      [] v = OVAL_RESULT_ERROR -> [u EXCEPT !.result_error = @ + 1]
      [] v = OVAL_RESULT_UNKNOWN -> [u EXCEPT !.result_unknown = @ + 1]
      [] v = OVAL_RESULT_NOT_EVALUATED -> [u EXCEPT !.result_neval = @ + 1]
      [] v = OVAL_RESULT_NOT_APPLICABLE -> [u EXCEPT !.result_napp = @ + 1]
      [] OTHER -> u

\* The switch of app_oval_callback: the counter of the verdict's category goes
\* up by one; a value that is none of the six categories changes nothing.
app_oval_callback(u, v) ==
    CASE v = OVAL_RESULT_TRUE -> [u EXCEPT !.result_true = @ + 1]
      [] v = OVAL_RESULT_FALSE -> [u EXCEPT !.result_false = @ + 1]
      [] v = OVAL_RESULT_ERROR -> [u EXCEPT !.result_error = @ + 1]
      [] v = OVAL_RESULT_UNKNOWN -> [u EXCEPT !.result_unknown = @ + 1]
      [] v = OVAL_RESULT_NOT_EVALUATED -> [u EXCEPT !.result_neval = @ + 1]
      [] v = OVAL_RESULT_NOT_APPLICABLE -> [u EXCEPT !.result_napp = @ + 1]
      [] OTHER -> u

\* Faulty variant: the batch return code looks at result_false only.
BatchDispositionFalseOnly(u) ==
    IF u.result_false = 0 THEN OSCAP_OK ELSE OSCAP_FAIL

\* The return code of batch mode.
BatchDisposition(u) ==
    IF (u.result_false = 0) /\ (u.result_unknown = 0) THEN OSCAP_OK ELSE OSCAP_FAIL

\* Faulty variant: the single-definition return code looks at OVAL_RESULT_FALSE only.
SingleDispositionFalseOnly(r) ==
    IF r # OVAL_RESULT_FALSE THEN OSCAP_OK ELSE OSCAP_FAIL

\* The return code of single-definition mode.
SingleDisposition(r) ==
    IF (r # OVAL_RESULT_FALSE) /\ (r # OVAL_RESULT_UNKNOWN) THEN OSCAP_OK ELSE OSCAP_FAIL

\* Faulty variant: both failures of the pre-validation return the same status.
ValidateFailStatusSame(e) == OSCAP_ERROR

\* The status of a failed pre-validation: e is oscap_err().
ValidateFailStatus(e) ==
    IF e THEN OSCAP_FAIL ELSE OSCAP_ERROR

\* ---------------------------------------------------------- collect workflow
\* Faulty variant: the clean-up forgets the system-characteristics model.
CollectCleanupNoSysModel(h) ==
    Free(Free(h, "pb_sess"), "def_model")

\* oval_probe_session_destroy, oval_syschar_model_free, oval_definition_model_free.
CollectCleanup(h) ==
    Free(Free(Free(h, "pb_sess"), "sys_model"), "def_model")

\* Faulty variant: the result of a probe query is never taken for a failure.
QueryFailedNever(r) == FALSE

\* Lines 201 and 212: the check of a probe query's return value r.
QueryFailed(r) == r # 0

CleanupCalls ==
    << Call("oval_probe_session_destroy", TRUE), Call("oval_syschar_model_free", TRUE),
       Call("oval_definition_model_free", TRUE) >>

\* Lines 191-197: the import, the empty syschar model and the probe session.
\* The import's result is not checked: a NULL definition model is handed on.
CollectSetup ==
    /\ pc = "start" /\ action.module = "collect"
    /\ \E ok \in BOOLEAN, n \in 0..MaxDefs :
         /\ heap' = [heap EXCEPT !["def_model"] = IF ok THEN "live" ELSE "null",
                                 !["sys_model"] = "live",
                                 !["pb_sess"] = "live"]
         /\ nDefs' = IF ok THEN n ELSE 0
         /\ calls' = calls \o << Call("oval_definition_model_import", ok),
                                 Call("oval_syschar_model_new", TRUE),
                                 Call("oval_probe_session_new", TRUE) >>
    /\ pc' = "c_sysinfo"
    /\ UNCHANGED << opt, action, VERBOSE, usr, ret, err, verdicts, out, site, rc >>

\* Lines 200-208: the sysinfo query, its check, set_sysinfo and sysinfo_free.
CollectSysinfo ==
    /\ pc = "c_sysinfo"
    /\ \E r \in {-1, 0, 1} :
         IF ~QueryFailed(r)
         THEN /\ heap' = Free(Use(Use([Use(heap, "pb_sess") EXCEPT !["sysinfo"] = "live"],
                                      "sys_model"), "sysinfo"), "sysinfo")
              /\ calls' = calls \o << Call("oval_probe_query_sysinfo", r = 0),
                                      Call("oval_syschar_model_set_sysinfo", TRUE),
                                      Call("oval_sysinfo_free", TRUE) >>
              /\ pc' = "c_objects"
              /\ UNCHANGED << site, rc >>
         ELSE /\ heap' = CollectCleanup(Use(heap, "pb_sess"))
              /\ calls' = calls \o << Call("oval_probe_query_sysinfo", r = 0) >>
                                \o CleanupCalls
              /\ Return(OSCAP_ERROR, 205)
    /\ UNCHANGED << opt, action, VERBOSE, usr, ret, err, nDefs, verdicts, out >>

\* Lines 211-217: the objects query and its check.
CollectObjects ==
    /\ pc = "c_objects"
    /\ \E r \in {-1, 0, 1} :
         IF ~QueryFailed(r)
         THEN /\ heap' = Use(heap, "pb_sess")
              /\ calls' = Append(calls, Call("oval_probe_query_objects", r = 0))
              /\ pc' = "c_export"
              /\ UNCHANGED << site, rc >>
         ELSE /\ heap' = CollectCleanup(Use(heap, "pb_sess"))
              /\ calls' = calls \o << Call("oval_probe_query_objects", r = 0) >>
                                \o CleanupCalls
              /\ Return(OSCAP_ERROR, 216)
    /\ UNCHANGED << opt, action, VERBOSE, usr, ret, err, nDefs, verdicts, out >>

\* Lines 220-227: the export to /dev/stdout, the clean-up and the return.
CollectExport ==
    /\ pc = "c_export"
    /\ heap' = CollectCleanup(Use(heap, "sys_model"))
    /\ calls' = calls \o << Call("oval_syschar_model_export", TRUE) >> \o CleanupCalls
    /\ Return(OSCAP_OK, 227)
    /\ UNCHANGED << opt, action, VERBOSE, usr, ret, err, nDefs, verdicts, out >>

\* --------------------------------------------------------- evaluate workflow
\* Line 254: the status of a failed definition-model import.
ImportFailStatus == OSCAP_ERROR

\* Faulty variant: the pre-validation runs whatever action->validate is.
ValidateEnabledAlways(a) == TRUE

\* Line 240: the pre-validation runs when action->validate is set.
ValidateEnabled(a) == a.validate

\* Faulty variant: a fault of the evaluation call is never acted upon.
EvalFaultNever(r, e) == FALSE

\* Line 281: the evaluation call returned -1 and an error is set.
EvalFault(r, e) == (r = -1) /\ e

\* Faulty variant: the report is requested outside the results-path branch.
AfterEvalPcReportUnnested(a) ==
    IF a.f_results # NULL THEN "e_export"
    ELSE IF a.f_report # NULL THEN "e_report" ELSE "e_cleanup"

\* Lines 298 and 322-324: the export and the report are both inside the
\* branch taken when a results path was given.
AfterEvalPc(a) ==
    IF a.f_results # NULL THEN "e_export" ELSE "e_cleanup"

\* Line 240 with action->validate = 0 (--skip-valid): straight to the import.
EvalSkipValidate ==
    /\ pc = "start" /\ action.module = "eval" /\ ~ValidateEnabled(action)
    /\ pc' = "e_import"
    /\ UNCHANGED << opt, action, VERBOSE, heap, usr, ret, err, nDefs, verdicts, calls, out,
                    site, rc >>

\* Lines 240-250: the pre-validation.  valid is oscap_validate_document's
\* result, e is oscap_err() after it returned false.
EvalValidate ==
    /\ pc = "start" /\ action.module = "eval" /\ ValidateEnabled(action)
    /\ \E valid \in BOOLEAN, e \in BOOLEAN :
         /\ calls' = Append(calls, Call("oscap_validate_document", valid))
         /\ IF valid
            THEN /\ pc' = "e_import"
                 /\ UNCHANGED << err, out, site, rc >>
            ELSE /\ err' = e
                 /\ out' = IF e
                           THEN Append(out, <<"stderr", "ERROR: oscap_err_desc", 0>>)
                           ELSE Append(out, <<"stdout", "INVALID_DOCUMENT_MSG", 0>>)
                 /\ Return(ValidateFailStatus(e), IF e THEN 245 ELSE 248)
    /\ UNCHANGED << opt, action, VERBOSE, heap, usr, ret, nDefs, verdicts >>

\* Lines 251-255: the definition-model import and its check.
EvalImport ==
    /\ pc = "e_import"
    /\ \E ok \in BOOLEAN, n \in 0..MaxDefs :
         /\ calls' = Append(calls, Call("oval_definition_model_import", ok))
         /\ IF ok
            THEN /\ heap' = [heap EXCEPT !["def_model"] = "live"]
                 /\ nDefs' = n
                 /\ pc' = "e_session"
                 /\ UNCHANGED << out, site, rc >>
            ELSE /\ heap' = [heap EXCEPT !["def_model"] = "null"]
                 /\ out' = Append(out, <<"stderr", "Failed to import the definition model", 0>>)
                 /\ Return(ImportFailStatus, 254)
                 /\ UNCHANGED nDefs
    /\ UNCHANGED << opt, action, VERBOSE, usr, ret, err, verdicts >>

\* Lines 257-267: the session, its check, and the zeroed counter block.
EvalNewSession ==
    /\ pc = "e_session"
    /\ \E ok \in BOOLEAN, e \in BOOLEAN :
         /\ calls' = Append(calls, Call("oval_agent_new_session", ok))
         /\ IF ok
            THEN /\ heap' = [Use(heap, "def_model") EXCEPT !["sess"] = "live",
                                                           !["usr"] = "live"]
                 /\ usr' = ZeroUsr
                 /\ pc' = IF action.id # NULL THEN "e_eval_definition" ELSE "e_eval_system"
                 /\ UNCHANGED << err, out, site, rc >>
            ELSE /\ heap' = [Use(heap, "def_model") EXCEPT !["sess"] = "null"]
                 /\ err' = e
                 /\ out' = Append(Say(out, e, "stderr", "Error: oscap_err_desc", 0),
                                  <<"stderr", "Failed to create new agent session.", 0>>)
                 /\ Return(OSCAP_ERROR, 262)
                 /\ UNCHANGED usr
    /\ UNCHANGED << opt, action, VERBOSE, ret, nDefs, verdicts >>

\* Lines 270-273: single-definition mode.  r is what oval_agent_eval_definition
\* returns, e is oscap_err() after a fault.
EvalDefinition ==
    /\ pc = "e_eval_definition"
    /\ \E r \in EvalDefinitionReturns, e \in BOOLEAN :
         /\ ret' = r
         /\ err' = ((r = -1) /\ e)
         /\ calls' = Append(calls, Call("oval_agent_eval_definition", r # -1))
         /\ out' = Say(out, VERBOSE >= 0, "stdout", "Definition", r)
    /\ heap' = Use(heap, "sess")
    /\ pc' = "e_after_eval"
    /\ UNCHANGED << opt, action, VERBOSE, usr, nDefs, verdicts, site, rc >>

\* Lines 152-183: oval_agent_eval_system reports the next definition's verdict
\* to app_oval_callback, which prints it and counts it.
EvalSystemCallback ==
    /\ pc = "e_eval_system"
    /\ Len(verdicts) < nDefs
    /\ \E v \in CallbackVerdicts :
         /\ verdicts' = Append(verdicts, v)
         /\ usr' = app_oval_callback(usr, v)
         /\ out' = Say(out, VERBOSE >= 0, "stdout", "Definition", v)
    /\ heap' = Use(heap, "usr")
    /\ UNCHANGED << opt, action, VERBOSE, pc, ret, err, nDefs, calls, site, rc >>

\* Line 275, oval_agent_eval_system returns 0 once every definition was reported.
EvalSystemReturn ==
    /\ pc = "e_eval_system"
    /\ Len(verdicts) = nDefs
    /\ ret' = 0
    /\ calls' = Append(calls, Call("oval_agent_eval_system", TRUE))
    /\ heap' = Use(heap, "sess")
    /\ pc' = "e_after_eval"
    /\ UNCHANGED << opt, action, VERBOSE, usr, err, nDefs, verdicts, out, site, rc >>

\* Line 275, oval_agent_eval_system gives up with -1; e is oscap_err().
EvalSystemFault ==
    /\ pc = "e_eval_system"
    /\ \E e \in BOOLEAN : err' = e
    /\ ret' = -1
    /\ calls' = Append(calls, Call("oval_agent_eval_system", FALSE))
    /\ heap' = Use(heap, "sess")
    /\ pc' = "e_after_eval"
    /\ UNCHANGED << opt, action, VERBOSE, usr, nDefs, verdicts, out, site, rc >>

\* The six lines of the REPORT banner.
ReportBanner(o, u) ==
    o \o << <<"stdout", "===== REPORT =====", 0>>,
            <<"stdout", "TRUE:", u.result_true>>,
            <<"stdout", "FALSE:", u.result_false>>,
            <<"stdout", "ERROR:", u.result_error>>,
            <<"stdout", "UNKNOWN:", u.result_unknown>>,
            <<"stdout", "NOT EVALUATED:", u.result_neval>>,
            <<"stdout", "NOT APPLICABLE:", u.result_napp>> >>

\* Lines 277-298: "Evaluation done.", the fault check, the REPORT banner.
EvalAfter ==
    /\ pc = "e_after_eval"
    /\ LET o1 == Say(out, VERBOSE >= 0, "stdout", "Evaluation done.", 0)
       IN IF EvalFault(ret, err)
          THEN /\ out' = Append(o1, <<"stderr", "Error: oscap_err_desc", 0>>)
               /\ Return(OSCAP_ERROR, 283)
               /\ UNCHANGED heap
          ELSE /\ out' = IF (VERBOSE >= 0) /\ (action.id = NULL)
                         THEN ReportBanner(o1, usr) ELSE o1
               /\ heap' = IF (VERBOSE >= 0) /\ (action.id = NULL)
                          THEN Use(heap, "usr") ELSE heap
               /\ pc' = AfterEvalPc(action)
               /\ UNCHANGED << site, rc >>
    /\ UNCHANGED << opt, action, VERBOSE, usr, ret, err, nDefs, verdicts, calls >>

\* Lines 298-320: the results model of the session, the directives, the export.
\* The results model belongs to the session.
EvalExport ==
    /\ pc = "e_export"
    /\ heap' = Free(Use(Use([Use(heap, "sess") EXCEPT !["res_model"] = "live",
                                                      !["res_direct"] = "live"],
                            "res_model"), "res_direct"), "res_direct")
    /\ calls' = calls \o << Call("oval_agent_get_results_model", TRUE),
                            Call("oval_result_directives_new", TRUE),
                            Call("oval_result_directives_set_reported", TRUE),
                            Call("oval_result_directives_set_content", TRUE),
                            Call("oval_results_model_export", TRUE),
                            Call("oval_result_directives_free", TRUE) >>
    /\ pc' = IF action.f_report # NULL THEN "e_report" ELSE "e_cleanup"
    /\ UNCHANGED << opt, action, VERBOSE, usr, ret, err, nDefs, verdicts, out, site, rc >>

\* Lines 322-323 and 147-150: the HTML report from the exported results file.
EvalReport ==
    /\ pc = "e_report"
    /\ calls' = Append(calls, Call("app_xslt", TRUE))
    /\ pc' = "e_cleanup"
    /\ UNCHANGED << opt, action, VERBOSE, heap, usr, ret, err, nDefs, verdicts, out, site, rc >>

\* Faulty variant: destroying the session also frees the definition model.
DestroySessionAndModel(h) ==
    Free(Free(Free(h, "res_model"), "sess"), "def_model")

\* oval_agent_destroy_session: the session goes, and its results model with it.
DestroySession(h) ==
    Free(Free(h, "res_model"), "sess")

\* Lines 326-345: the clean-up and the return code.  Only batch mode reads and
\* frees the counter block.
EvalCleanup ==
    /\ pc = "e_cleanup"
    /\ LET h1 == Free(DestroySession(heap), "def_model")
       IN IF action.id # NULL
          THEN /\ heap' = h1
               /\ calls' = calls \o << Call("oval_agent_destroy_session", TRUE),
                                       Call("oval_definition_model_free", TRUE) >>
               /\ Return(SingleDisposition(ret),
                         IF SingleDisposition(ret) = OSCAP_OK THEN 332 ELSE 334)
          ELSE /\ heap' = Free(Use(h1, "usr"), "usr")
               /\ calls' = calls \o << Call("oval_agent_destroy_session", TRUE),
                                       Call("oval_definition_model_free", TRUE),
                                       Call("free", TRUE) >>
               /\ Return(BatchDisposition(usr),
                         IF BatchDisposition(usr) = OSCAP_OK THEN 340 ELSE 343)
    /\ UNCHANGED << opt, action, VERBOSE, usr, ret, err, nDefs, verdicts, out >>

\* ---------------------------------------------------------- analyse workflow
\* Faulty variant: analyse applies the pass/fail policy of the evaluate workflow.
AnalyseDispositionPolicy(vs) ==
    IF \E i \in 1..Len(vs) : vs[i] \in {OVAL_RESULT_FALSE, OVAL_RESULT_UNKNOWN}
    THEN OSCAP_FAIL ELSE OSCAP_OK

\* Line 396: the status of an analyse run that reached the end, whatever the
\* verdicts vs of the results model are.
AnalyseDisposition(vs) == OSCAP_OK

\* Faulty variant: the failed import of the system characteristics is not acted upon.
SyscharImportFailedNever(r) == FALSE

\* Line 361: the check of oval_syschar_model_import's return value r.
SyscharImportFailed(r) == r = -1

\* Lines 354-358: the definition-model import and its check.
AnalyseImport ==
    /\ pc = "start" /\ action.module = "analyse"
    /\ \E ok \in BOOLEAN, n \in 0..MaxDefs :
         /\ calls' = Append(calls, Call("oval_definition_model_import", ok))
         /\ IF ok
            THEN /\ heap' = [heap EXCEPT !["def_model"] = "live"]
                 /\ nDefs' = n
                 /\ pc' = "a_syschar"
                 /\ UNCHANGED << out, site, rc >>
            ELSE /\ heap' = [heap EXCEPT !["def_model"] = "null"]
                 /\ out' = Append(out, <<"stderr", "Failed to import the definition model", 0>>)
                 /\ Return(OSCAP_ERROR, 357)
                 /\ UNCHANGED nDefs
    /\ UNCHANGED << opt, action, VERBOSE, usr, ret, err, verdicts >>

\* Lines 360-367: the syschar model, its import (r is the import's return
\* value, e is oscap_err() after a failure) and the check.
AnalyseSyschar ==
    /\ pc = "a_syschar"
    /\ \E r \in {0, -1}, e \in BOOLEAN :
         /\ IF SyscharImportFailed(r)
            THEN /\ calls' = calls \o << Call("oval_syschar_model_new", TRUE),
                                         Call("oval_syschar_model_import", r # -1),
                                         Call("oval_definition_model_free", TRUE) >>
                 /\ heap' = Free([Use(heap, "def_model") EXCEPT !["sys_model"] = "live"],
                                 "def_model")
                 /\ err' = e
                 /\ out' = Say(Append(out, <<"stderr",
                                  "Failed to import the system characteristics model", 0>>),
                               e, "stderr", "ERROR: oscap_err_desc", 0)
                 /\ Return(OSCAP_ERROR, 366)
            ELSE /\ calls' = calls \o << Call("oval_syschar_model_new", TRUE),
                                         Call("oval_syschar_model_import", r # -1) >>
                 /\ heap' = [Use(heap, "def_model") EXCEPT !["sys_model"] = "live"]
                 /\ pc' = "a_results"
                 /\ UNCHANGED << err, out, site, rc >>
    /\ UNCHANGED << opt, action, VERBOSE, usr, ret, nDefs, verdicts >>

\* Lines 369-375 and 396: the results model and its evaluation, which gives
\* every definition a verdict; without a results path the function returns.
AnalyseResults ==
    /\ pc = "a_results"
    /\ \E vs \in [1..nDefs -> CallbackVerdicts] :
         /\ verdicts' = vs
         /\ IF action.f_results # NULL
            THEN pc' = "a_export" /\ UNCHANGED << site, rc >>
            ELSE Return(AnalyseDisposition(vs), 396)
    /\ heap' = [Use(Use(heap, "def_model"), "sys_model") EXCEPT !["res_model"] = "live"]
    /\ calls' = calls \o << Call("oval_results_model_new", TRUE),
                            Call("oval_results_model_eval", TRUE) >>
    /\ UNCHANGED << opt, action, VERBOSE, usr, ret, err, nDefs, out >>

\* Lines 375-396: the directives, the export and the return.
AnalyseExport ==
    /\ pc = "a_export"
    /\ heap' = Free(Use(Use([heap EXCEPT !["res_direct"] = "live"],
                            "res_model"), "res_direct"), "res_direct")
    /\ calls' = calls \o << Call("oval_result_directives_new", TRUE),
                            Call("oval_result_directives_set_reported", TRUE),
                            Call("oval_result_directives_set_content", TRUE),
                            Call("oval_results_model_export", TRUE),
                            Call("oval_result_directives_free", TRUE) >>
    /\ Return(AnalyseDisposition(verdicts), 396)
    /\ UNCHANGED << opt, action, VERBOSE, usr, ret, err, nDefs, verdicts, out >>

\* ------------------------------------------------------------ specification
Next ==
    \/ GetoptOval
    \/ CallFunc
    \/ CollectSetup
    \/ CollectSysinfo
    \/ CollectObjects
    \/ CollectExport
    \/ EvalSkipValidate
    \/ EvalValidate
    \/ EvalImport
    \/ EvalNewSession
    \/ EvalDefinition
    \/ EvalSystemCallback
    \/ EvalSystemReturn
    \/ EvalSystemFault
    \/ EvalAfter
    \/ EvalExport
    \/ EvalReport
    \/ EvalCleanup
    \/ AnalyseImport
    \/ AnalyseSyschar
    \/ AnalyseResults
    \/ AnalyseExport

Spec == Init /\ [][Next]_vars

\* ================================================================== claims
\* The evaluate workflow returned from its return-code block (lines 330-345).
EvalFinal ==
    /\ pc = "done" /\ action.module = "eval"
    /\ site \in {332, 334, 340, 343}

\* Number of delivered verdicts that are one of the six categories.
InCategory(vs) == Cardinality({ i \in 1..Len(vs) : vs[i] \in SixCategories })

\* C1: in batch mode, a run that reaches the final disposition returns
\* OSCAP_OK if and only if the false counter and the unknown counter are both
\* zero; the other four counters do not matter.
C1_BatchDisposition ==
    (EvalFinal /\ action.id = NULL) =>
        /\ rc \in {OSCAP_OK, OSCAP_FAIL}
        /\ (rc = OSCAP_OK) <=> (usr.result_false = 0 /\ usr.result_unknown = 0)

\* C1 witness (scenario B): a batch of two true and one false returns OSCAP_FAIL.
C1_Witness ==
    /\ EvalFinal /\ action.id = NULL
    /\ usr.result_true = 2 /\ usr.result_false = 1 /\ SumUsr(usr) = 3
    /\ rc = OSCAP_FAIL

\* C2: in single-definition mode, a run that reaches the final disposition
\* returns OSCAP_OK if and only if the value oval_agent_eval_definition
\* returned is neither false nor unknown; the counters are all zero and unread.
C2_SingleDisposition ==
    (EvalFinal /\ action.id # NULL) =>
        /\ rc \in {OSCAP_OK, OSCAP_FAIL}
        /\ (rc = OSCAP_OK) <=> (ret \notin {OVAL_RESULT_FALSE, OVAL_RESULT_UNKNOWN})
        /\ usr = ZeroUsr

\* C2 witness (scenario A): --id CHECK-1 evaluates to true, is printed, exit OK.
C2_Witness ==
    /\ EvalFinal /\ action.id = "CHECK-1"
    /\ ret = OVAL_RESULT_TRUE /\ rc = OSCAP_OK
    /\ \E i \in 1..Len(out) : out[i] = <<"stdout", "Definition", OVAL_RESULT_TRUE>>

\* A batch evaluation in which the callback ran once for every definition.
BatchEvaluated ==
    /\ action.module = "eval" /\ action.id = NULL
    /\ Called("oval_agent_eval_system")
    /\ Len(verdicts) = nDefs

\* C3 as claimed: after a batch evaluation with one callback per definition the
\* six counters add up to the number of definitions, whatever the verdict values.
C3_Original ==
    BatchEvaluated => SumUsr(usr) = nDefs

\* C3 as amended: the six counters add up to the number of callbacks whose
\* verdict is one of the six categories, hence to the number of definitions
\* when every verdict is; a value outside the six categories is counted nowhere.
C3_SumCountsCategories ==
    BatchEvaluated =>
        /\ SumUsr(usr) = InCategory(verdicts)
        /\ (\A i \in 1..Len(verdicts) : verdicts[i] \in SixCategories)
               => SumUsr(usr) = nDefs

\* C3 witness: a finished batch holding a counted and an uncounted verdict.
C3_Witness ==
    /\ BatchEvaluated /\ pc = "done" /\ nDefs >= 2
    /\ \E i \in 1..Len(verdicts) : verdicts[i] = OVAL_RESULT_NOT_APPLICABLE
    /\ \E i \in 1..Len(verdicts) : verdicts[i] = OVAL_RESULT_INVALID
    /\ SumUsr(usr) = nDefs - 1

\* C4: an analyse run in which both imports succeeded returns OSCAP_OK,
\* whatever verdicts the results evaluation gave and with or without a
\* results path.
C4_AnalyseSuccess ==
    ( /\ action.module = "analyse" /\ pc = "done"
      /\ Succeeded("oval_definition_model_import")
      /\ Succeeded("oval_syschar_model_import") )
        => rc = OSCAP_OK

\* C4 witness: an analysis whose verdicts are all false, exported, returns OK.
C4_Witness ==
    /\ action.module = "analyse" /\ pc = "done" /\ rc = OSCAP_OK
    /\ action.f_results # NULL /\ Called("oval_results_model_export")
    /\ Len(verdicts) >= 2
    /\ \A i \in 1..Len(verdicts) : verdicts[i] = OVAL_RESULT_FALSE

\* A probe step of the collect workflow failed.
ProbeFailed ==
    /\ action.module = "collect"
    /\ Failed("oval_probe_query_sysinfo") \/ Failed("oval_probe_query_objects")

\* C5: when a probe step fails, collect returns OSCAP_ERROR, never exports the
\* system characteristics, and has released the probe session, the syschar
\* model and the definition model by the time it returns.
C5_ProbeFailure ==
    ProbeFailed =>
        /\ pc = "done" /\ rc = OSCAP_ERROR
        /\ ~Called("oval_syschar_model_export")
        /\ heap["pb_sess"] = "freed"
        /\ heap["sys_model"] = "freed"
        /\ heap["def_model"] \in {"freed", "null"}
        /\ heap["sysinfo"] \in {"freed", "none"}

\* C5 witness: the objects query fails after a successful import and sysinfo.
C5_Witness ==
    /\ ProbeFailed /\ Failed("oval_probe_query_objects")
    /\ Succeeded("oval_definition_model_import")
    /\ heap["def_model"] = "freed" /\ rc = OSCAP_ERROR

\* C6 as claimed: however app_evaluate_oval returns, the definition model, the
\* session and the counter block it acquired have been released.
C6_Original ==
    (action.module = "eval" /\ pc = "done") =>
        \A r \in {"def_model", "sess", "usr"} : heap[r] # "live"

\* C7 as claimed: however app_analyse_oval returns, the definition model, the
\* syschar model and the results model it constructed have been released.
C7_Original ==
    (action.module = "analyse" /\ pc = "done") =>
        \A r \in {"def_model", "sys_model", "res_model"} : heap[r] # "live"

\* C8: when the system-characteristics import fails, analyse returns
\* OSCAP_ERROR and constructs, evaluates and exports no results model, also
\* when a results path was given.
C8_SyscharImportFailure ==
    (action.module = "analyse" /\ Failed("oval_syschar_model_import")) =>
        /\ pc = "done" /\ rc = OSCAP_ERROR
        /\ ~Called("oval_results_model_new")
        /\ ~Called("oval_results_model_eval")
        /\ ~Called("oval_results_model_export")
        /\ heap["res_model"] = "none"

\* C8 witness (scenario E): the import fails in a run given --result-file.
C8_Witness ==
    /\ action.module = "analyse" /\ Failed("oval_syschar_model_import")
    /\ action.f_results = "out.xml" /\ pc = "done"
    /\ Printed("Failed to import the system characteristics model")

\* The pre-validation failed: err tells a validator fault from a mismatch.
ValidationFailed ==
    /\ action.module = "eval" /\ pc = "done"
    /\ Failed("oscap_validate_document")

\* C9 as claimed: a validator-internal fault returns the hard-error status,
\* the one a failed definition-model import returns, which is not the
\* policy-fail status a false or unknown verdict returns.
C9_Original ==
    (ValidationFailed /\ err) =>
        /\ rc = ImportFailStatus
        /\ rc # SingleDisposition(OVAL_RESULT_FALSE)
        /\ rc # BatchDisposition([ZeroUsr EXCEPT !.result_unknown = 1])

\* C10: the status of a schema mismatch differs from the status of a validator
\* fault, and neither is OSCAP_OK.
C10_ValidationStatuses ==
    ValidationFailed =>
        /\ rc # ValidateFailStatus(~err)
        /\ rc # OSCAP_OK
        /\ ValidateFailStatus(~err) # OSCAP_OK

\* C10 witness: a schema mismatch, the invalid-document marker is printed.
C10_Witness ==
    /\ ValidationFailed /\ ~err
    /\ Printed("INVALID_DOCUMENT_MSG")

\* getopt_oval has just returned: its frame is still in opt.
GetoptReturned == pc \in {"parsed", "usage"}

\* C11 as claimed: getopt_oval does not return true when the definitions file
\* is missing, nor for analyse when the system-characteristics file is missing;
\* when it returns true, the index of each path it stored is below argc.
C11_Original ==
    GetoptReturned =>
        /\ (opt.optind >= opt.argc) => opt.ret # "true"
        /\ (action.module = "analyse" /\ opt.optind + 1 >= opt.argc) => opt.ret # "true"
        /\ (opt.ret = "true") =>
               /\ opt.optind < opt.argc
               /\ (action.module = "analyse") => opt.optind + 1 < opt.argc

\* C12 as claimed: in every workflow a failed definition-model import is the
\* last collaborator call of the run, which returns OSCAP_ERROR.
C12_Original ==
    Failed("oval_definition_model_import") =>
        /\ pc = "done" /\ rc = OSCAP_ERROR
        /\ calls[Len(calls)].fn = "oval_definition_model_import"
        /\ \A r \in Resources : heap[r] \in {"none", "null"}

\* Position of the first call of fn in calls (0 when there is none), and the
\* number of calls of fn.
Idx(fn) ==
    IF Called(fn)
    THEN CHOOSE i \in 1..Len(calls) :
             calls[i].fn = fn /\ \A j \in 1..(i - 1) : calls[j].fn # fn
    ELSE 0

Count(fn) == Cardinality({ i \in 1..Len(calls) : calls[i].fn = fn })

EvalCalls == { "oval_agent_eval_system", "oval_agent_eval_definition" }

\* The evaluation call of a finished evaluate run returned -1 with an error set.
EvalFaulted ==
    /\ action.module = "eval" /\ pc = "done"
    /\ \E fn \in EvalCalls : Failed(fn)
    /\ ret = -1 /\ err

\* C13: when the evaluation call returns -1 with an error set, evaluate
\* returns OSCAP_ERROR whatever the counters hold, exports no results
\* document, generates no report and prints no REPORT banner.
C13_EvalFaultAborts ==
    EvalFaulted =>
        /\ rc = OSCAP_ERROR
        /\ ~Called("oval_results_model_export")
        /\ ~Called("app_xslt")
        /\ ~Printed("===== REPORT =====")

\* C13 witness: a verbose batch run with both output paths faults after a
\* true verdict was counted.
C13_Witness ==
    /\ EvalFaulted /\ action.id = NULL /\ VERBOSE >= 0
    /\ action.f_results # NULL /\ action.f_report # NULL
    /\ usr.result_true >= 1 /\ usr.result_false = 0 /\ usr.result_unknown = 0

\* C14: with pre-validation enabled the validator is the first call and every
\* other call follows its acceptance; when it rejects or faults, nothing else
\* is called; --skip-valid clears action->validate, and then the validator is
\* never called and the first call is the import.
C14_ValidationFirst ==
    /\ (GetoptReturned /\ "skip-valid" \in opt.given) => ~action.validate
    /\ (action.module = "eval" /\ ~GetoptReturned /\ pc # "getopt") =>
        /\ Failed("oscap_validate_document") => (Len(calls) = 1 /\ pc = "done")
        /\ (action.validate /\ calls # << >>) =>
               /\ calls[1].fn = "oscap_validate_document"
               /\ Count("oscap_validate_document") = 1
               /\ (Len(calls) > 1) => calls[1].ok
        /\ ~action.validate =>
               /\ ~Called("oscap_validate_document")
               /\ (calls # << >>) => calls[1].fn = "oval_definition_model_import"

\* C14 witness: the validator accepts, and the run goes on to the evaluation.
C14_Witness ==
    /\ action.module = "eval" /\ pc = "done" /\ action.validate
    /\ Succeeded("oscap_validate_document")
    /\ Idx("oscap_validate_document") < Idx("oval_definition_model_import")
    /\ Idx("oval_definition_model_import") < Idx("oval_agent_new_session")
    /\ Succeeded("oval_agent_eval_system")

\* C15: a results document is exported only with a results path, after an
\* evaluation call that did not fault and before the session is destroyed; a
\* report is generated only with a report path and after the results document
\* of the same run was exported.
C15_ExportThenReport ==
    (action.module = "eval") =>
        /\ Count("oval_results_model_export") <= 1
        /\ Called("oval_results_model_export") =>
               /\ action.f_results # NULL
               /\ \E fn \in EvalCalls :
                      Called(fn) /\ Idx(fn) < Idx("oval_results_model_export")
               /\ ~((ret = -1) /\ err)
               /\ Called("oval_agent_destroy_session") =>
                      Idx("oval_results_model_export") < Idx("oval_agent_destroy_session")
        /\ Called("app_xslt") =>
               /\ action.f_report # NULL
               /\ Called("oval_results_model_export")
               /\ Idx("oval_results_model_export") < Idx("app_xslt")

\* C15 witness: a finished run that exported and then generated the report.
C15_Witness ==
    /\ action.module = "eval" /\ pc = "done"
    /\ Called("oval_results_model_export") /\ Called("app_xslt")
    /\ Called("oval_agent_destroy_session")

\* C16: collect exports the system characteristics at most once, and only
\* after the sysinfo query succeeded, the sysinfo was set on the model and the
\* objects query succeeded, in that order; it never touches a results model.
C16_CollectOrder ==
    (action.module = "collect") =>
        /\ Count("oval_syschar_model_export") <= 1
        /\ Called("oval_syschar_model_export") =>
               /\ Succeeded("oval_probe_query_sysinfo")
               /\ Succeeded("oval_probe_query_objects")
               /\ Idx("oval_probe_query_sysinfo") < Idx("oval_syschar_model_set_sysinfo")
               /\ Idx("oval_syschar_model_set_sysinfo") < Idx("oval_probe_query_objects")
               /\ Idx("oval_probe_query_objects") < Idx("oval_syschar_model_export")
        /\ ~Called("oval_results_model_new")
        /\ ~Called("oval_agent_get_results_model")
        /\ ~Called("oval_results_model_export")
        /\ heap["res_model"] = "none"

\* C16 witness: a collect run that exported and returned OSCAP_OK.
C16_Witness ==
    /\ action.module = "collect" /\ pc = "done" /\ rc = OSCAP_OK
    /\ Called("oval_syschar_model_export")
    /\ Succeeded("oval_definition_model_import")

\* The fields of struct oval_usr, and the field counting each category.
UsrFields == DOMAIN ZeroUsr

CounterOf(v) ==
    CASE v = OVAL_RESULT_TRUE -> "result_true"
      [] v = OVAL_RESULT_FALSE -> "result_false"
      [] v = OVAL_RESULT_ERROR -> "result_error"
      [] v = OVAL_RESULT_UNKNOWN -> "result_unknown"
      [] v = OVAL_RESULT_NOT_EVALUATED -> "result_neval"
      [] v = OVAL_RESULT_NOT_APPLICABLE -> "result_napp"
      [] OTHER -> "none"

C17_Step ==
    /\ (action.module = "eval" /\ verdicts' # verdicts) =>
           LET v == verdicts'[Len(verdicts')]
           IN \A f \in UsrFields :
                  usr'[f] = usr[f] + (IF f = CounterOf(v) THEN 1 ELSE 0)
    /\ \A f \in UsrFields : usr'[f] >= usr[f]
    /\ (heap["usr"] # "live" /\ heap'["usr"] = "live") => usr' = ZeroUsr
    /\ (action.module = "eval" /\ action.id # NULL /\ pc' = "done") => usr' = ZeroUsr

\* C17: a callback with a verdict of one of the six categories adds one to
\* the matching counter and leaves the other five alone; no step lowers a
\* counter; the counter block starts at zero when it is allocated; and a
\* single-definition run ends with all six counters at zero.
C17_CountersFrame == [][C17_Step]_vars

\* C17 witness: two callbacks of different categories, each counted once.
C17_Witness ==
    /\ action.module = "eval" /\ action.id = NULL
    /\ verdicts = << OVAL_RESULT_NOT_EVALUATED, OVAL_RESULT_ERROR >>
    /\ usr = [ZeroUsr EXCEPT !.result_neval = 1, !.result_error = 1]

\* C18: no object is released twice, and none is read, written or handed to
\* a collaborator after its release.
C18_NoMisuse ==
    \A r \in Resources : heap[r] \notin {"double_free", "use_after_free"}

\* C18 witness: a batch run that exported, read the counters for the return
\* code and released the session, its results model, the definition model
\* and the counter block.
C18_Witness ==
    /\ action.module = "eval" /\ action.id = NULL /\ pc = "done"
    /\ Called("oval_results_model_export") /\ VERBOSE >= 0
    /\ \A r \in {"sess", "res_model", "res_direct", "def_model", "usr"} :
           heap[r] = "freed"

====
